---- MODULE Spec2Model ----
(***************************************************************************)
(* Model of the unit algebra in src/siunits/main.py: BaseUnit, Assoc,      *)
(* DerivedUnit and Composite values, the operators defined on them, and    *)
(* the helpers _to_unit_map, _base_description, _mul_helper, _pow and      *)
(* _power_text.                                                            *)
(*                                                                         *)
(* Representation.                                                         *)
(*  - every Python value is a record with a "kind" field;                  *)
(*  - a Python number is an exact rational [kind |-> "Num", n, d] in       *)
(*    lowest terms; the model keeps coefficients in a range of dyadic      *)
(*    rationals (CoefOK), on which Python's int and float arithmetic is    *)
(*    exact, so that int 5 and float 5.0 are the same model value;         *)
(*  - a dict is the sequence of its <<key, value>> items in insertion      *)
(*    order; keys are BaseUnits, hashed and compared by id;                *)
(*  - a raised exception is a record [kind |-> "Error", type];             *)
(*  - text is a TLA+ string.  Characters outside ASCII are written with    *)
(*    stand-ins: the middle dot "·" is ".", the superscripts "⁻⁰¹²…⁹" are  *)
(*    "^-" "^0" "^1" "^2" … "^9", and the sentinel name "𝟙" is "<1>".      *)
(***************************************************************************)
EXTENDS Integers, Sequences, FiniteSets, TLC

\* ------------------------------------------------------------------------
\* Bounds of the model
\* ------------------------------------------------------------------------
MaxCalls == 1       \* calls made in one run, on the objects of the initial heap
MaxPow == 2         \* |power| passed to **
MaxPairs == 3       \* length of a list passed to the DerivedUnit constructor
MaxExp == 2         \* |exponent| in a list passed to the constructor
MaxCoef == 8        \* |numerator| of a coefficient
DenBits == 3        \* a coefficient's denominator divides 2^DenBits
MaxText == 120      \* |power| passed to _power_text

\* ------------------------------------------------------------------------
\* Text
\* ------------------------------------------------------------------------
MidDot == "."
SupMinus == "^-"
Unity == "<1>"

\* the table `chars` of _power_text
chars == [c \in {"-", "0", "1", "2", "3", "4", "5", "6", "7", "8", "9"} |->
            IF c = "-" THEN SupMinus ELSE "^" \o c]

DigitChar(k) == <<"0", "1", "2", "3", "4", "5", "6", "7", "8", "9">>[k + 1]

RECURSIVE NatChars(_)
\* the characters of str(n), n >= 0
NatChars(n) == IF n < 10 THEN <<DigitChar(n)>>
               ELSE Append(NatChars(n \div 10), DigitChar(n % 10))

\* the characters of str(power)
str(power) == IF power < 0 THEN <<"-">> \o NatChars(-power) ELSE NatChars(power)

RECURSIVE join(_, _)
\* sep.join(parts)
join(sep, parts) ==
    IF parts = <<>> THEN ""
    ELSE IF Len(parts) = 1 THEN parts[1]
    ELSE parts[1] \o sep \o join(sep, Tail(parts))

_power_text(power) ==
    LET result == [i \in 1..Len(str(power)) |-> chars[str(power)[i]]]
        keep(i) == ~(result[i] = "^1" /\ (i = 1 \/ result[i-1] # SupMinus))
        RECURSIVE loop(_, _)
        loop(i, new_result) ==
            IF i > Len(result) THEN new_result
            ELSE loop(i + 1, IF keep(i) THEN new_result \o result[i] ELSE new_result)
    IN loop(1, "")

\* ------------------------------------------------------------------------
\* Numbers
\* ------------------------------------------------------------------------
Abs(x) == IF x < 0 THEN -x ELSE x

RECURSIVE Gcd(_, _)
Gcd(a, b) == IF b = 0 THEN a ELSE Gcd(b, a % b)

Rat(n, d) ==
    LET g == Gcd(Abs(n), Abs(d))
        s == IF d < 0 THEN -1 ELSE 1
    IN [kind |-> "Num", n |-> s * (n \div g), d |-> s * (d \div g)]

Num(k) == [kind |-> "Num", n |-> k, d |-> 1]

Error(t) == [kind |-> "Error", type |-> t]
IsErr(v) == v.kind = "Error"
IsNum(v) == v.kind = "Num"

NumAdd(a, b) == Rat(a.n * b.d + b.n * a.d, a.d * b.d)
NumSub(a, b) == Rat(a.n * b.d - b.n * a.d, a.d * b.d)
NumMul(a, b) == Rat(a.n * b.n, a.d * b.d)
NumDiv(a, b) == IF b.n = 0 THEN Error("ZeroDivisionError")
                ELSE Rat(a.n * b.d, a.d * b.n)
NumEq(a, b) == a.n = b.n /\ a.d = b.d

\* ------------------------------------------------------------------------
\* Values
\* ------------------------------------------------------------------------
BaseUnit(id, _name, abbrev, quantity) ==
    [kind |-> "BaseUnit", id |-> id, _name |-> _name, abbrev |-> abbrev,
     quantity |-> quantity]

Assoc(unit, power) == [unit |-> unit, power |-> power]

Composite(coef, unit) ==
    IF IsErr(coef) THEN coef
    ELSE IF IsErr(unit) THEN unit
    ELSE [kind |-> "Composite", coef |-> coef, unit |-> unit]

Bool(b) == [kind |-> "Bool", val |-> b]

IsUnit(v) == v.kind \in {"BaseUnit", "DerivedUnit"}

\* BaseUnit.__hash__ and BaseUnit.__eq__ on two BaseUnits: a dict key is
\* found by id
SameKey(u, v) == u.id = v.id

\* ------------------------------------------------------------------------
\* dict, as the sequence of its items
\* ------------------------------------------------------------------------
HasKey(map, u) == \E i \in 1..Len(map) : SameKey(map[i][1], u)
KeyIndex(map, u) == CHOOSE i \in 1..Len(map) : SameKey(map[i][1], u)
DictGet(map, u) == map[KeyIndex(map, u)][2]
DictSet(map, u, v) ==
    IF HasKey(map, u) THEN [map EXCEPT ![KeyIndex(map, u)] = <<@[1], v>>]
    ELSE Append(map, <<u, v>>)
DictEq(m1, m2) ==
    /\ Len(m1) = Len(m2)
    /\ \A i \in 1..Len(m1) :
          HasKey(m2, m1[i][1]) /\ DictGet(m2, m1[i][1]) = m1[i][2]

_to_unit_map(units) ==
    LET RECURSIVE loop(_, _)
        loop(rest, result) ==
            IF rest = <<>> THEN result
            ELSE LET u == Head(rest)
                 IN loop(Tail(rest),
                         IF HasKey(result, u.unit)
                         THEN DictSet(result, u.unit, DictGet(result, u.unit) + 1)
                         ELSE DictSet(result, u.unit, u.power))
    IN SelectSeq(loop(units, <<>>), LAMBDA kv : kv[2] # 0)

_base_description(units) ==
    LET unit_map == _to_unit_map(units)
    IN join(MidDot, [i \in 1..Len(unit_map) |->
                        unit_map[i][1].abbrev \o _power_text(unit_map[i][2])])

\* DerivedUnit.__init__; base_units is a list of <<BaseUnit, exponent>>
DerivedUnit(name_, abbrev, base_units, quantity) ==
    LET base_units2 == [i \in 1..Len(base_units) |->
                           Assoc(base_units[i][1], base_units[i][2])]
        m == _to_unit_map(base_units2)
    IN [kind |-> "DerivedUnit",
        _name_tokens |-> <<<<name_, 1>>>>,
        abbrev |-> abbrev,
        base_units |-> [i \in 1..Len(m) |-> Assoc(m[i][1], m[i][2])],
        quantity |-> quantity]

\* DerivedUnit.name()
name(self) ==
    LET RECURSIVE loop(_, _)
        loop(rest, result_map) ==
            IF rest = <<>> THEN result_map
            ELSE LET t == Head(rest)
                     has == \E i \in 1..Len(result_map) : result_map[i][1] = t[1]
                     at == CHOOSE i \in 1..Len(result_map) : result_map[i][1] = t[1]
                 IN loop(Tail(rest),
                         IF has
                         THEN [result_map EXCEPT ![at] = <<@[1], @[2] + t[2]>>]
                         ELSE Append(result_map, <<t[1], 0 + t[2]>>))
        result_map == loop(self._name_tokens, <<>>)
    IN join(MidDot, [i \in 1..Len(result_map) |->
                        result_map[i][1] \o _power_text(result_map[i][2])])

rename(self, name_, abbrev, quantity) ==
    DerivedUnit(name_, abbrev,
                [i \in 1..Len(self.base_units) |->
                    <<self.base_units[i].unit, self.base_units[i].power>>],
                quantity)

\* the dimensionless unit built at main.py lines 440 and 474
Dimensionless == DerivedUnit(Unity, "", <<>>, Unity)

\* ------------------------------------------------------------------------
\* Operators.  Operator(symbol, a, b) is Python's evaluation of a binary
\* operator expression: the method of the left operand, and for a number on
\* the left the reflected method of the right operand (== reflects to __eq__,
\* a missing reflected method is a TypeError).  Mul, Div, Pow, Eq, Add, Sub
\* and Neg name the operator expressions.
\* ------------------------------------------------------------------------
RECURSIVE Operator(_, _, _)

Mul(a, b) == Operator("*", a, b)
Div(a, b) == Operator("/", a, b)
Pow(a, power) == Operator("**", a, power)
Eq(a, b) == Operator("==", a, b)
Add(a, b) == Operator("+", a, b)
Sub(a, b) == Operator("-", a, b)
Neg(a) == Operator("neg", a, a)

Truthy(b) == b.kind = "Bool" /\ b.val

\* other_tokens without the sign a division gives the right operand's tokens
other_tokens_unsigned(other, symbol) ==
    IF other.kind = "BaseUnit" THEN << <<other._name, 1>> >>
    ELSE other._name_tokens

\* the tokens the right operand contributes (lines 460-464)
other_tokens(other, symbol) ==
    IF other.kind = "BaseUnit"
    THEN << <<other._name, IF symbol = "/" THEN -1 ELSE 1>> >>
    ELSE LET sign == IF symbol = "/" THEN -1 ELSE 1
         IN [i \in 1..Len(other._name_tokens) |->
                <<other._name_tokens[i][1], sign * other._name_tokens[i][2]>>]

\* the tokens the left operand contributes (lines 455-458)
self_tokens(self) ==
    IF self.kind = "BaseUnit" THEN << <<self._name, 1>> >> ELSE self._name_tokens

\* ApplyOp storing the right operand's exponent over the one already there
ApplyOpOverwrite(op, x, y) == y

\* op(x, y) for operator.add and operator.sub
ApplyOp(op, x, y) == IF op = "add" THEN x + y ELSE x - y

\* lines 413-424: merge the right operand into unit_map
MergeUnits(other, init_map, op, symbol) ==
    LET RECURSIVE loop(_, _)
        loop(rest, unit_map) ==
            IF rest = <<>> THEN unit_map
            ELSE LET u == Head(rest)
                 IN loop(Tail(rest),
                         IF HasKey(unit_map, u.unit)
                         THEN DictSet(unit_map, u.unit,
                                      ApplyOp(op, DictGet(unit_map, u.unit), u.power))
                         ELSE DictSet(unit_map, u.unit,
                                      IF symbol = "/" THEN -u.power ELSE u.power))
    IN IF other.kind = "BaseUnit"
       THEN IF HasKey(init_map, other)
            THEN DictSet(init_map, other, ApplyOp(op, DictGet(init_map, other), 1))
            ELSE DictSet(init_map, other, IF symbol = "/" THEN -1 ELSE 1)
       ELSE loop(other.base_units, init_map)

_mul_helper(self, other, init_map, op, symbol) ==
    CASE IsUnit(other) ->
            LET unit_map == MergeUnits(other, init_map, op, symbol)
                base_units2 == [i \in 1..Len(unit_map) |->
                                   Assoc(unit_map[i][1], unit_map[i][2])]
                result == DerivedUnit("", _base_description(base_units2), unit_map,
                                      self.quantity \o " " \o symbol \o " "
                                          \o other.quantity)
            IN IF Len(SelectSeq(unit_map, LAMBDA kv : kv[2] # 0)) = 0
               THEN Dimensionless
               ELSE [result EXCEPT !._name_tokens =
                        SelectSeq(self_tokens(self) \o other_tokens(other, symbol),
                                  LAMBDA t : t[1] # Unity)]
      [] other.kind = "Composite" ->
            IF symbol = "/" THEN Error("TypeError") ELSE Mul(other, self)
      [] other.kind = "Num" ->
            IF symbol = "/" THEN Composite(NumDiv(Num(1), other), self)
            ELSE Composite(other, self)
      [] OTHER -> Error("TypeError")

\* the init_map a DerivedUnit passes to _mul_helper (lines 223, 240)
SelfMap(self) == _to_unit_map(self.base_units)

BaseUnit__mul__(self, other) ==
    _mul_helper(self, other, << <<self, 1>> >>, "add", MidDot)

DerivedUnit__mul__(self, other) ==
    _mul_helper(self, other, SelfMap(self), "add", MidDot)

\* __rmul__ = __mul__ in the three classes
BaseUnit__rmul__(self, other) == BaseUnit__mul__(self, other)
DerivedUnit__rmul__(self, other) == DerivedUnit__mul__(self, other)

Composite__mul__(self, other) ==
    CASE IsUnit(other) -> Composite(self.coef, Mul(self.unit, other))
      [] other.kind = "Composite" ->
            Composite(NumMul(self.coef, other.coef), Mul(self.unit, other.unit))
      [] other.kind = "Num" -> Composite(NumMul(self.coef, other), self.unit)
      [] OTHER -> Error("TypeError")

\* _pow multiplying whatever the sign of power
_pow_always_mul(unit, power) ==
    LET RECURSIVE loop(_, _)
        loop(k, result) ==
            IF k = 0 THEN result ELSE loop(k - 1, Mul(result, unit))
    IN loop(Abs(power), Dimensionless)

_pow(unit, power) ==
    LET RECURSIVE loop(_, _)
        loop(k, result) ==
            IF k = 0 THEN result
            ELSE loop(k - 1, IF power > 0 THEN Mul(result, unit)
                             ELSE Div(result, unit))
    IN loop(Abs(power), Dimensionless)

Composite__rmul__(self, other) == Composite__mul__(self, other)

BaseUnit__pow__(self, power) == _pow(self, power)
DerivedUnit__pow__(self, power) == _pow(self, power)
Composite__pow__(self, power) == _pow(self, power)

BaseUnit__truediv__(self, other) ==
    IF other.kind = "Composite"
    THEN Composite(NumDiv(Num(1), other.coef), Mul(self, Pow(other.unit, -1)))
    ELSE _mul_helper(self, other, << <<self, 1>> >>, "sub", "/")

BaseUnit__rtruediv__(self, other) ==
    IF other.kind = "Num" THEN Composite(other, Pow(self, -1))
    ELSE Error("TypeError")

DerivedUnit__truediv__(self, other) ==
    IF other.kind = "Composite"
    THEN Composite(NumDiv(Num(1), other.coef), Div(self, other.unit))
    ELSE _mul_helper(self, other, SelfMap(self), "sub", "/")

DerivedUnit__rtruediv__(self, other) ==
    IF other.kind = "Num" THEN Composite(other, Pow(self, -1))
    ELSE Error("TypeError")

Composite__truediv__(self, other) ==
    CASE IsUnit(other) -> Composite(self.coef, Div(self.unit, other))
      [] other.kind = "Composite" ->
            Composite(NumDiv(self.coef, other.coef), Div(self.unit, other.unit))
      [] other.kind = "Num" -> Composite(NumDiv(self.coef, other), self.unit)
      [] OTHER -> Error("TypeError")

Composite__rtruediv__(self, other) ==
    CASE IsUnit(other) ->
            Composite(NumDiv(Num(1), self.coef), Div(other, self.unit))
      [] other.kind = "Composite" ->
            Composite(NumDiv(other.coef, self.coef), Div(other.unit, self.unit))
      [] other.kind = "Num" ->
            Composite(NumDiv(other, self.coef), Div(Num(1), self.unit))
      [] OTHER -> Error("TypeError")

\* list equality other.base_units == [Assoc(self, 1)]: Assoc is a dataclass,
\* compared as the tuple (unit, power), the units by BaseUnit.__eq__
AssocListEq(l1, l2) ==
    /\ Len(l1) = Len(l2)
    /\ \A i \in 1..Len(l1) : l1[i].unit.id = l2[i].unit.id /\ l1[i].power = l2[i].power

\* `not other` for the values of the model: only the number 0 is falsy
Falsy(other) == other.kind = "Num" /\ other.n = 0

BaseUnit__eq__(self, other) ==
    CASE Falsy(other) -> Bool(FALSE)
      [] other.kind = "BaseUnit" -> Bool(self.id = other.id)
      [] other.kind = "DerivedUnit" ->
            Bool(AssocListEq(other.base_units, <<Assoc(self, 1)>>))
      [] OTHER -> Error("TypeError")

DerivedUnit__eq__(self, other) ==
    CASE other.kind = "Num" -> Bool(NumEq(other, Num(1)))
      [] other.kind = "DerivedUnit" ->
            Bool(DictEq(_to_unit_map(self.base_units), _to_unit_map(other.base_units)))
      [] OTHER -> Error("AttributeError")

Composite__eq__(self, other) ==
    CASE other.kind = "Num" -> Bool(NumEq(self.coef, other))
      [] other.kind = "Composite" ->
            IF ~NumEq(self.coef, other.coef) THEN Bool(FALSE)
            ELSE Eq(self.unit, other.unit)
      [] other.kind = "DerivedUnit" ->
            IF ~NumEq(self.coef, Num(1)) THEN Bool(FALSE)
            ELSE Eq(self.unit, other)
      [] OTHER -> Error("TypeError")

\* `if self == other: return Composite(coef, self) else: raise TypeError`
IfEqual(test, coef, unit) ==
    IF IsErr(test) THEN test
    ELSE IF Truthy(test) THEN Composite(coef, unit)
    ELSE Error("TypeError")

BaseUnit__add__(self, other) ==
    CASE other.kind = "Num" -> Composite(NumAdd(Num(1), other), self)
      [] other.kind = "BaseUnit" -> IfEqual(Eq(self, other), Num(2), self)
      [] OTHER -> Error("TypeError")

BaseUnit__radd__(self, other) == BaseUnit__add__(self, other)

BaseUnit__sub__(self, other) ==
    CASE other.kind = "Num" -> Composite(NumSub(Num(1), other), self)
      [] other.kind = "BaseUnit" -> IfEqual(Eq(self, other), Num(0), self)
      [] OTHER -> Error("TypeError")

BaseUnit__rsub__(self, other) == BaseUnit__sub__(self, other)

BaseUnit__neg__(self) == Composite(Num(-1), self)

DerivedUnit__add__(self, other) ==
    CASE other.kind = "Num" -> Composite(NumAdd(Num(1), other), self)
      [] other.kind = "DerivedUnit" -> IfEqual(Eq(self, other), Num(2), self)
      [] OTHER -> Error("TypeError")

DerivedUnit__radd__(self, other) == DerivedUnit__add__(self, other)

DerivedUnit__sub__(self, other) ==
    CASE other.kind = "Num" -> Composite(NumSub(Num(1), other), self)
      [] other.kind = "DerivedUnit" -> IfEqual(Eq(self, other), Num(0), self)
      [] OTHER -> Error("TypeError")

DerivedUnit__rsub__(self, other) == DerivedUnit__sub__(self, other)

Composite__add__(self, other) ==
    CASE other.kind = "Composite" ->
            IfEqual(Eq(self.unit, other.unit), NumAdd(self.coef, other.coef), self.unit)
      [] other.kind = "Num" -> Composite(NumAdd(self.coef, other), self.unit)
      [] OTHER -> Error("TypeError")

Composite__sub__(self, other) ==
    CASE other.kind = "Composite" ->
            IfEqual(Eq(self.unit, other.unit), NumSub(self.coef, other.coef), self.unit)
      [] other.kind = "Num" -> Composite(NumSub(self.coef, other), self.unit)
      [] OTHER -> Error("TypeError")

Operator(symbol, a, b) ==
    IF IsErr(a) THEN a
    ELSE IF symbol = "**"
    THEN CASE a.kind = "BaseUnit" -> BaseUnit__pow__(a, b)
           [] a.kind = "DerivedUnit" -> DerivedUnit__pow__(a, b)
           [] a.kind = "Composite" -> Composite__pow__(a, b)
           [] OTHER -> Error("TypeError")
    ELSE IF symbol = "neg"
    THEN CASE a.kind = "BaseUnit" -> BaseUnit__neg__(a)
           [] OTHER -> Error("TypeError")
    ELSE IF IsErr(b) THEN b
    ELSE IF a.kind = "Num" /\ b.kind = "Num"
    THEN CASE symbol = "*" -> NumMul(a, b)
           [] symbol = "/" -> NumDiv(a, b)
           [] symbol = "+" -> NumAdd(a, b)
           [] symbol = "-" -> NumSub(a, b)
           [] symbol = "==" -> Bool(NumEq(a, b))
    ELSE CASE symbol = "*" /\ a.kind = "BaseUnit" -> BaseUnit__mul__(a, b)
           [] symbol = "*" /\ a.kind = "DerivedUnit" -> DerivedUnit__mul__(a, b)
           [] symbol = "*" /\ a.kind = "Composite" -> Composite__mul__(a, b)
           [] symbol = "*" /\ b.kind = "BaseUnit" -> BaseUnit__rmul__(b, a)
           [] symbol = "*" /\ b.kind = "DerivedUnit" -> DerivedUnit__rmul__(b, a)
           [] symbol = "*" /\ b.kind = "Composite" -> Composite__rmul__(b, a)
           [] symbol = "/" /\ a.kind = "BaseUnit" -> BaseUnit__truediv__(a, b)
           [] symbol = "/" /\ a.kind = "DerivedUnit" -> DerivedUnit__truediv__(a, b)
           [] symbol = "/" /\ a.kind = "Composite" -> Composite__truediv__(a, b)
           [] symbol = "/" /\ b.kind = "BaseUnit" -> BaseUnit__rtruediv__(b, a)
           [] symbol = "/" /\ b.kind = "DerivedUnit" -> DerivedUnit__rtruediv__(b, a)
           [] symbol = "/" /\ b.kind = "Composite" -> Composite__rtruediv__(b, a)
           [] symbol = "==" /\ a.kind = "BaseUnit" -> BaseUnit__eq__(a, b)
           [] symbol = "==" /\ a.kind = "DerivedUnit" -> DerivedUnit__eq__(a, b)
           [] symbol = "==" /\ a.kind = "Composite" -> Composite__eq__(a, b)
           [] symbol = "==" /\ b.kind = "BaseUnit" -> BaseUnit__eq__(b, a)
           [] symbol = "==" /\ b.kind = "DerivedUnit" -> DerivedUnit__eq__(b, a)
           [] symbol = "==" /\ b.kind = "Composite" -> Composite__eq__(b, a)
           [] symbol = "+" /\ a.kind = "BaseUnit" -> BaseUnit__add__(a, b)
           [] symbol = "+" /\ a.kind = "DerivedUnit" -> DerivedUnit__add__(a, b)
           [] symbol = "+" /\ a.kind = "Composite" -> Composite__add__(a, b)
           [] symbol = "+" /\ b.kind = "BaseUnit" -> BaseUnit__radd__(b, a)
           [] symbol = "+" /\ b.kind = "DerivedUnit" -> DerivedUnit__radd__(b, a)
           [] symbol = "-" /\ a.kind = "BaseUnit" -> BaseUnit__sub__(a, b)
           [] symbol = "-" /\ a.kind = "DerivedUnit" -> DerivedUnit__sub__(a, b)
           [] symbol = "-" /\ a.kind = "Composite" -> Composite__sub__(a, b)
           [] symbol = "-" /\ b.kind = "BaseUnit" -> BaseUnit__rsub__(b, a)
           [] symbol = "-" /\ b.kind = "DerivedUnit" -> DerivedUnit__rsub__(b, a)
           [] OTHER -> Error("TypeError")

\* ------------------------------------------------------------------------
\* The state machine: a session that applies the operators to the objects it
\* holds.  heap is the sequence of the objects created so far (an object's
\* index is its identity), last describes the most recent call and ncalls
\* counts the calls.
\* ------------------------------------------------------------------------
VARIABLES heap, last, ncalls

vars == <<heap, last, ncalls>>

meter == BaseUnit(1, "meter", "m", "length")
second == BaseUnit(2, "second", "s", "time")

\* the plain numbers the session passes to the operators
Scalars == {Num(0), Num(1), Num(2)}

\* the powers the session passes to **
Powers == (0 - MaxPow)..MaxPow

RECURSIVE SeqsUpTo(_, _)
\* the sequences over S of length at most k
SeqsUpTo(S, k) ==
    IF k = 0 THEN {<<>>}
    ELSE LET shorter == SeqsUpTo(S, k - 1)
         IN shorter \cup {Append(q, e) : q \in shorter, e \in S}

\* the lists SpecCtor passes to the DerivedUnit constructor
PairLists == SeqsUpTo({meter, second} \X ((0 - MaxExp)..MaxExp), MaxPairs)

\* the lists Spec passes to the DerivedUnit constructor
CatalogLists ==
    { <<>>,
      << <<meter, 1>> >>,
      << <<meter, 1>>, <<second, -2>> >>,
      << <<meter, 1>>, <<meter, 1>>, <<second, -1>> >>,
      << <<meter, 2>>, <<meter, 2>> >>,
      << <<meter, 1>>, <<meter, -1>> >> }

\* the objects a session starts from: the two base units and objects built
\* from them with the operators
Seeds ==
    { meter,
      second,
      Div(meter, second),
      Div(second, meter),
      Pow(meter, 1),
      Div(meter, meter),
      Mul(Num(2), meter),
      Mul(Num(2), Pow(meter, 1)) }

RECURSIVE Pow2(_)
Pow2(k) == IF k = 0 THEN 1 ELSE 2 * Pow2(k - 1)

RECURSIVE CoefOK(_)
\* the coefficients of v are in the range the model covers
CoefOK(v) ==
    CASE v.kind = "Num" -> Abs(v.n) <= MaxCoef /\ Pow2(DenBits) % v.d = 0
      [] v.kind = "Composite" -> CoefOK(v.coef) /\ CoefOK(v.unit)
      [] OTHER -> TRUE

\* an operand: an object of the heap (ref is its index) or a number (ref 0)
Objects == {[ref |-> i, val |-> heap[i]] : i \in 1..Len(heap)}
Numbers == {[ref |-> 0, val |-> n] : n \in Scalars}

NoCall == [op |-> "none", refs |-> <<>>, args |-> <<>>, res |-> Bool(TRUE), new |-> 0]

Init ==
    /\ heap \in {<<x, y>> : x \in Seeds, y \in Seeds}
    /\ last = NoCall
    /\ ncalls = 0

InitCtor ==
    /\ heap = <<meter, second>>
    /\ last = NoCall
    /\ ncalls = 0

\* the token list of self had line 467 extended it in place
TokensExtendedInSelf(self_toks, other_toks) == self_toks \o other_toks

\* line 467 builds the result's token list with self_tokens + other_tokens,
\* a new list: the list held by self keeps its elements
TokensLeftInSelf(self_toks, other_toks) == self_toks

\* the heap after self * other or self / other returned or raised: what the
\* call left in its operands
AfterMulDiv(h, a, b, op, symbol) ==
    IF a.ref # 0 /\ a.val.kind = "DerivedUnit" /\ IsUnit(b.val)
       /\ \E i \in 1..Len(MergeUnits(b.val, SelfMap(a.val), op, symbol)) :
             MergeUnits(b.val, SelfMap(a.val), op, symbol)[i][2] # 0
    THEN [h EXCEPT ![a.ref]._name_tokens =
             TokensLeftInSelf(self_tokens(a.val), other_tokens(b.val, symbol))]
    ELSE h

\* record a call: a result that is an object is a new object of the heap
Return(op, refs, args, res, h) ==
    /\ ncalls < MaxCalls
    /\ CoefOK(res)
    /\ ncalls' = ncalls + 1
    /\ IF res.kind \in {"Error", "Bool"}
       THEN /\ heap' = h
            /\ last' = [op |-> op, refs |-> refs, args |-> args, res |-> res, new |-> 0]
       ELSE /\ heap' = Append(h, res)
            /\ last' = [op |-> op, refs |-> refs, args |-> args, res |-> res,
                        new |-> Len(heap) + 1]

DoConstruct(lists) ==
    \E l \in lists :
        Return("DerivedUnit", <<>>, <<l>>, DerivedUnit("newton", "N", l, "force"), heap)

DoRename ==
    \E a \in Objects :
        /\ a.val.kind = "DerivedUnit"
        /\ Return("rename", <<a.ref>>, <<a.val>>,
                  rename(a.val, "hertz", "Hz", "frequency"), heap)

DoAdd ==
    \E a \in Objects \cup Numbers, b \in Objects \cup Numbers :
        /\ a.ref # 0 \/ b.ref # 0
        /\ Return("add", <<a.ref, b.ref>>, <<a.val, b.val>>, Add(a.val, b.val), heap)

DoSub ==
    \E a \in Objects \cup Numbers, b \in Objects \cup Numbers :
        /\ a.ref # 0 \/ b.ref # 0
        /\ Return("sub", <<a.ref, b.ref>>, <<a.val, b.val>>, Sub(a.val, b.val), heap)

DoNeg ==
    \E a \in Objects :
        Return("neg", <<a.ref>>, <<a.val>>, Neg(a.val), heap)

DoMul ==
    \E a \in Objects \cup Numbers, b \in Objects \cup Numbers :
        /\ a.ref # 0 \/ b.ref # 0
        /\ Return("mul", <<a.ref, b.ref>>, <<a.val, b.val>>, Mul(a.val, b.val),
                  AfterMulDiv(heap, a, b, "add", MidDot))

DoDiv ==
    \E a \in Objects \cup Numbers, b \in Objects \cup Numbers :
        /\ a.ref # 0 \/ b.ref # 0
        /\ Return("div", <<a.ref, b.ref>>, <<a.val, b.val>>, Div(a.val, b.val),
                  AfterMulDiv(heap, a, b, "sub", "/"))

DoPow ==
    \E a \in Objects, p \in Powers :
        Return("pow", <<a.ref>>, <<a.val, p>>, Pow(a.val, p), heap)

DoEq ==
    \E a \in Objects \cup Numbers, b \in Objects \cup Numbers :
        /\ a.ref # 0 \/ b.ref # 0
        /\ Return("eq", <<a.ref, b.ref>>, <<a.val, b.val>>, Eq(a.val, b.val), heap)

Next ==
    \/ DoConstruct(CatalogLists)
    \/ DoRename
    \/ DoAdd
    \/ DoSub
    \/ DoNeg
    \/ DoMul
    \/ DoDiv
    \/ DoPow
    \/ DoEq

Spec == Init /\ [][Next]_vars

\* the constructor alone, on every list of PairLists
NextCtor == DoConstruct(PairLists)

SpecCtor == InitCtor /\ [][NextCtor]_vars

\* a str returned by a call
Str(s) == [kind |-> "Str", val |-> s]

\* _power_text(power) called on its own
DoPowerText ==
    \E power \in (0 - MaxText)..MaxText :
        /\ ncalls < MaxCalls
        /\ ncalls' = ncalls + 1
        /\ heap' = heap
        /\ last' = [op |-> "_power_text", refs |-> <<>>, args |-> <<power>>,
                    res |-> Str(_power_text(power)), new |-> 0]

NextText == DoPowerText

SpecText == InitCtor /\ [][NextText]_vars

\* ------------------------------------------------------------------------
\* Vocabulary of the properties
\* ------------------------------------------------------------------------
\* the dimensional signature of a unit, as the set of its <<id, exponent>>
SigOf(u) ==
    IF u.kind = "BaseUnit" THEN {<<u.id, 1>>}
    ELSE {<<u.base_units[i].unit.id, u.base_units[i].power>> :
             i \in 1..Len(u.base_units)}

\* a stored signature is deduplicated and zero-pruned
Canonical(d) ==
    /\ \A i \in 1..Len(d.base_units) : d.base_units[i].power # 0
    /\ \A i, j \in 1..Len(d.base_units) :
          d.base_units[i].unit.id = d.base_units[j].unit.id => i = j

RECURSIVE SumFor(_, _)
\* the sum of the exponents a list of <<BaseUnit, exponent>> gives for id
SumFor(l, id) ==
    IF l = <<>> THEN 0
    ELSE (IF Head(l)[1].id = id THEN Head(l)[2] ELSE 0) + SumFor(Tail(l), id)

\* the signature a list of <<BaseUnit, exponent>> stands for
SummedSig(l) ==
    {pr \in {<<l[i][1].id, SumFor(l, l[i][1].id)>> : i \in 1..Len(l)} : pr[2] # 0}

NegSig(S) == {<<pr[1], 0 - pr[2]>> : pr \in S}

\* a bare unit counts as coefficient 1
CoefOf(v) == IF v.kind = "Composite" THEN v.coef ELSE Num(1)
UnitOf(v) == IF v.kind = "Composite" THEN v.unit ELSE v

\* a Composite whose unit is a BaseUnit or a DerivedUnit
ProperComposite(v) == v.kind = "Composite" /\ IsUnit(v.unit)

RECURSIVE DerivedUnitsIn(_)
\* the DerivedUnits a value holds
DerivedUnitsIn(v) ==
    CASE v.kind = "DerivedUnit" -> {v}
      [] v.kind = "Composite" -> DerivedUnitsIn(v.unit)
      [] OTHER -> {}

Called(op) == last.op = op
Arg(k) == last.args[k]

\* ------------------------------------------------------------------------
\* C1: the constructor stores, for every list of (BaseUnit, exponent) pairs,
\* the signature in which each BaseUnit has the sum of its exponents and the
\* BaseUnits of sum 0 are absent.
\* ------------------------------------------------------------------------
C1_ConstructorSums ==
    Called("DerivedUnit") =>
        /\ Canonical(last.res)
        /\ SigOf(last.res) = SummedSig(Arg(1))

\* ------------------------------------------------------------------------
\* C2: d == 1 is true if and only if the signature of the DerivedUnit d is
\* empty.
\* ------------------------------------------------------------------------
C2_EqualsOneIffDimensionless ==
    (Called("eq") /\ Arg(1).kind = "DerivedUnit" /\ Arg(2) = Num(1)) =>
        last.res = Bool(Arg(1).base_units = <<>>)

\* ------------------------------------------------------------------------
\* C3: Composite(c, u) == n is true only when the signature of u is empty and
\* c equals n.
\* ------------------------------------------------------------------------
C3_CompositeEqualsNumber ==
    (Called("eq") /\ ProperComposite(Arg(1)) /\ Arg(2).kind = "Num"
       /\ last.res = Bool(TRUE)) =>
        /\ SigOf(Arg(1).unit) = {}
        /\ NumEq(Arg(1).coef, Arg(2))

\* ------------------------------------------------------------------------
\* C4: + and - on two BaseUnits, two DerivedUnits or two Composites raise
\* exactly when the signatures differ; otherwise the result is the Composite
\* of the sum or difference of the coefficients and the left operand's unit.
\* ------------------------------------------------------------------------
SameKindOperands ==
    \/ Arg(1).kind = "BaseUnit" /\ Arg(2).kind = "BaseUnit"
    \/ Arg(1).kind = "DerivedUnit" /\ Arg(2).kind = "DerivedUnit"
    \/ ProperComposite(Arg(1)) /\ ProperComposite(Arg(2))

C4_AddSubSameSignature ==
    ((Called("add") \/ Called("sub")) /\ SameKindOperands) =>
        IF SigOf(UnitOf(Arg(1))) # SigOf(UnitOf(Arg(2)))
        THEN IsErr(last.res)
        ELSE last.res =
                [kind |-> "Composite",
                 coef |-> IF Called("add") THEN NumAdd(CoefOf(Arg(1)), CoefOf(Arg(2)))
                          ELSE NumSub(CoefOf(Arg(1)), CoefOf(Arg(2))),
                 unit |-> UnitOf(Arg(1))]

\* ------------------------------------------------------------------------
\* C5: for a unit a and powers m, n, a ** (m + n) has the signature of
\* (a ** m) * (a ** n); for m + n = 0 both are dimensionless.
\* ------------------------------------------------------------------------
C5_PowerSum ==
    (Called("pow") /\ IsUnit(Arg(1))) =>
        /\ last.res.kind = "DerivedUnit"
        /\ \A m \in Powers, n \in Powers :
              m + n = Arg(2) =>
                 /\ SigOf(last.res) = SigOf(Mul(Pow(Arg(1), m), Pow(Arg(1), n)))
                 /\ Arg(2) = 0 =>
                       /\ SigOf(last.res) = {}
                       /\ Mul(Pow(Arg(1), m), Pow(Arg(1), n)).base_units = <<>>

C5_Witness ==
    /\ Called("pow")
    /\ Arg(1).kind = "DerivedUnit"
    /\ Len(Arg(1).base_units) = 2
    /\ Arg(2) < 0
    /\ Len(last.res.base_units) = 2

\* ------------------------------------------------------------------------
\* C6: for units a and b, a * b and b * a have the same signature.
\* ------------------------------------------------------------------------
C6_MulCommutes ==
    (Called("mul") /\ IsUnit(Arg(1)) /\ IsUnit(Arg(2))) =>
        /\ last.res.kind = "DerivedUnit"
        /\ SigOf(last.res) = SigOf(Mul(Arg(2), Arg(1)))

C6_Witness ==
    /\ Called("mul")
    /\ Arg(1).kind = "DerivedUnit"
    /\ Arg(2).kind = "DerivedUnit"
    /\ Len(Arg(1).base_units) = 2
    /\ SigOf(Arg(2)) = NegSig(SigOf(Arg(1)))
    /\ last.res.base_units = <<>>

\* ------------------------------------------------------------------------
\* C7: the unit of every Composite is a BaseUnit or a DerivedUnit, and
\* scalar / Composite(c, u) is the Composite of scalar / c and the DerivedUnit
\* of u's signature negated.
\* ------------------------------------------------------------------------
C7_CompositeUnit ==
    /\ \A i \in 1..Len(heap) : heap[i].kind = "Composite" => IsUnit(heap[i].unit)
    /\ (Called("div") /\ Arg(1).kind = "Num" /\ ProperComposite(Arg(2))
          /\ Arg(2).coef.n # 0) =>
          /\ last.res.kind = "Composite"
          /\ NumEq(last.res.coef, NumDiv(Arg(1), Arg(2).coef))
          /\ last.res.unit.kind = "DerivedUnit"
          /\ SigOf(last.res.unit) = NegSig(SigOf(Arg(2).unit))

\* ------------------------------------------------------------------------
\* C8: a call leaves every object it was given as it was, whether it returns
\* or raises, and an object it returns is a new object.
\* ------------------------------------------------------------------------
C8_OperandsUnchanged ==
    [][/\ Len(heap') >= Len(heap)
       /\ \A i \in 1..Len(heap) : heap'[i] = heap[i]
       /\ last'.new # 0 =>
             /\ last'.new = Len(heap) + 1
             /\ Len(heap') = Len(heap) + 1
             /\ heap'[last'.new] = last'.res
       /\ last'.new = 0 => Len(heap') = Len(heap)]_vars

C8_Witness ==
    /\ Called("mul")
    /\ last.refs[1] # 0
    /\ Arg(1).kind = "DerivedUnit"
    /\ IsUnit(Arg(2))
    /\ last.new = Len(heap)
    /\ Len(last.res._name_tokens) > Len(Arg(1)._name_tokens)
    /\ heap[last.refs[1]] = Arg(1)

\* ------------------------------------------------------------------------
\* C9 as claimed: meter / second has signature {meter: 1, second: -1},
\* abbreviation "m/s" and name() "meter/second".
\* ------------------------------------------------------------------------
C9_SlashText ==
    (Called("div") /\ Arg(1) = meter /\ Arg(2) = second) =>
        /\ SigOf(last.res) = {<<1, 1>>, <<2, -1>>}
        /\ last.res.abbrev = "m/s"
        /\ name(last.res) = "meter/second"

\* C9 amended: meter / second has signature {meter: 1, second: -1},
\* abbreviation "m·s⁻¹" and name() "meter·second⁻¹".
C9_DotText ==
    (Called("div") /\ Arg(1) = meter /\ Arg(2) = second) =>
        /\ last.res.kind = "DerivedUnit"
        /\ SigOf(last.res) = {<<1, 1>>, <<2, -1>>}
        /\ last.res.abbrev = "m" \o MidDot \o "s" \o SupMinus \o "^1"
        /\ name(last.res) = "meter" \o MidDot \o "second" \o SupMinus \o "^1"

C9_Witness ==
    /\ Called("div")
    /\ Arg(1) = meter
    /\ Arg(2) = second
    /\ last.new = Len(heap)

\* ------------------------------------------------------------------------
\* C10: every stored signature has no exponent 0 and one entry per BaseUnit,
\* and a DerivedUnit whose combined exponents are all 0 has an empty
\* signature.
\* ------------------------------------------------------------------------
C10_SignatureInvariant ==
    /\ \A i \in 1..Len(heap) : \A d \in DerivedUnitsIn(heap[i]) : Canonical(d)
    /\ (Called("DerivedUnit") /\ SummedSig(Arg(1)) = {}) => last.res.base_units = <<>>
    /\ (Called("mul") /\ IsUnit(Arg(1)) /\ IsUnit(Arg(2))
          /\ SigOf(Arg(2)) = NegSig(SigOf(Arg(1)))) => last.res.base_units = <<>>
    /\ (Called("div") /\ IsUnit(Arg(1)) /\ IsUnit(Arg(2))
          /\ SigOf(Arg(2)) = SigOf(Arg(1))) => last.res.base_units = <<>>

RECURSIVE SuperDigits(_)
\* every decimal digit of n >= 0, in order, as superscripts
SuperDigits(n) ==
    IF n < 10 THEN "^" \o DigitChar(n)
    ELSE SuperDigits(n \div 10) \o "^" \o DigitChar(n % 10)

\* the superscript rendering of p with all its digits
SuperText(p) == IF p < 0 THEN SupMinus \o SuperDigits(0 - p) ELSE SuperDigits(p)

\* ------------------------------------------------------------------------
\* C11: the formatted exponent is empty if and only if the exponent is 1;
\* for every other exponent it is the superscript of every decimal digit of
\* its absolute value, in order, after a superscript minus when negative.
\* ------------------------------------------------------------------------
C11_PowerTextKeepsDigits ==
    Called("_power_text") =>
        /\ (last.res.val = "") <=> (Arg(1) = 1)
        /\ Arg(1) # 1 => last.res.val = SuperText(Arg(1))

====
